---- MODULE Spec2Model ----
(***************************************************************************)
(* The LeNet notebook (chapter_convolutional-neural-networks/lenet.ipynb)  *)
(* as a state machine.  Three entry points are modelled:                   *)
(*   - the shape-inspection loop over the seven declared layers,           *)
(*   - evaluate_accuracy_gpu(net, data_iter, ctx),                         *)
(*   - train_ch5(net, train_iter, test_iter, num_epochs, lr, ctx).         *)
(* One action is one statement (or one group of adjacent statements) of   *)
(* the notebook; pc names the statement that runs next.                   *)
(***************************************************************************)
EXTENDS Integers, Sequences, FiniteSets, TLC

VARIABLES
    prog,        \* the entry point that runs: "shape", "evaluate" or "train"
    pc,          \* the statement that runs next
    err,         \* the exception that ended the run ("" when none)
    shapeX,      \* X of the shape-inspection cell: a shape
    layer_idx,   \* number of layers the shape-inspection loop has applied
    printed,     \* the shapes the shape-inspection loop has printed
    num_epochs,  \* train_ch5's argument
    train_iter,  \* train_ch5's argument: the sizes of its batches, in order
    test_iter,   \* train_ch5's argument: the sizes of its batches, in order
    ctx,         \* train_ch5's argument: the target device
    netKind,     \* what the network predicts: "perfect", "wrong" or "varying"
    params,      \* the network's parameters: initializations, version, devices
    trainer,     \* the optimizer: steps taken, last batch_size argument, gradient used
    animator,    \* the points recorded for plotting, in order
    timer,       \* d2l.Timer as train_ch5 drives it
    epoch,       \* loop variable of line 282 (-1 before the first epoch)
    i,           \* index the enumerate of line 284 last yielded (-1: none yet)
    batch,       \* X, y of the training loop: size and device
    fwd,         \* y_hat and l of the current batch
    grad,        \* the batch whose gradients the parameters hold
    ops,         \* the operations performed on the current batch, in order
    metric,      \* train_ch5's d2l.Accumulator(3)
    train_loss,  \* local of train_ch5
    train_acc,   \* local of train_ch5
    test_acc,    \* local of train_ch5
    out,         \* the lines train_ch5 has printed
    caller,      \* who called evaluate_accuracy_gpu
    data_iter,   \* evaluate_accuracy_gpu's argument
    ev_given,    \* the ctx evaluate_accuracy_gpu was called with
    ev_ctx,      \* evaluate_accuracy_gpu's ctx
    ev_metric,   \* evaluate_accuracy_gpu's d2l.Accumulator(2)
    ev_j,        \* position of the loop of line 245 (-1 before the first batch)
    ev_batch,    \* X, y of evaluate_accuracy_gpu: size and device
    ev_log,      \* the network invocations of the current evaluation, in order
    ev_ret,      \* what evaluate_accuracy_gpu returned
    seen,        \* per epoch, what the forward passes of that epoch produced
    examples     \* examples on which an optimizer step was taken, all epochs

vars == << prog, pc, err, shapeX, layer_idx, printed, num_epochs, train_iter,
           test_iter, ctx, netKind, params, trainer, animator, timer, epoch,
           i, batch, fwd, grad, ops, metric, train_loss, train_acc, test_acc,
           out, caller, data_iter, ev_given, ev_ctx, ev_metric, ev_j, ev_batch,
           ev_log, ev_ret, seen, examples >>

shapeVars == << shapeX, layer_idx, printed >>

inputVars == << prog, num_epochs, train_iter, test_iter, ctx, netKind >>

trainVars == << params, trainer, animator, timer, epoch, i, batch, fwd, grad,
                ops, metric, train_loss, train_acc, test_acc, out, seen,
                examples >>

evalVars == << caller, data_iter, ev_given, ev_ctx, ev_metric, ev_j, ev_batch,
               ev_log, ev_ret >>

----------------------------------------------------------------------------
(* Bounds of the model. *)

MaxEpochs == 2

MaxBatches == 2

MaxBatchSize == 2

MaxLoss == 1

MaxPlots == 2

(* Program constants. *)

PlotEvery == 50

----------------------------------------------------------------------------
(* Values. *)

\* A local that no statement has assigned yet.
Unbound == << >>

\* ctx=None of evaluate_accuracy_gpu.
None == "None"

\* The dataset lives on the CPU; the GPUs are the other devices.
Devices == {"cpu", "gpu0"}

\* a / b of two accumulator entries, kept exact: << a, b >> stands for a/b.
Div(a, b) == << a, b >>

RatEq(p, q) == p[1] * q[2] = q[1] * p[2]

RatLess(p, q) == p[1] * q[2] < q[1] * p[2]

RatLeq(p, q) == p[1] * q[2] <= q[1] * p[2]

RECURSIVE SumTo(_, _)
SumTo(s, k) == IF k = 0 THEN 0 ELSE s[k] + SumTo(s, k - 1)

Sum(s) == SumTo(s, Len(s))

----------------------------------------------------------------------------
(* The network and the shape-inspection loop. *)

Conv2D(channels, kernel_size, padding) ==
    [kind |-> "conv", channels |-> channels, kernel_size |-> kernel_size,
     padding |-> padding]

AvgPool2D(pool_size, strides) ==
    [kind |-> "pool", pool_size |-> pool_size, strides |-> strides]

Dense(units) == [kind |-> "dense", units |-> units]

\* Mutant of net: the second convolution repeats the padding of the first.
netBothPadded ==
    << Conv2D(6, 5, 2),
       AvgPool2D(2, 2),
       Conv2D(16, 5, 2),
       AvgPool2D(2, 2),
       Dense(120),
       Dense(84),
       Dense(10) >>

net ==
    << Conv2D(6, 5, 2),
       AvgPool2D(2, 2),
       Conv2D(16, 5, 0),
       AvgPool2D(2, 2),
       Dense(120),
       Dense(84),
       Dense(10) >>

\* Output side of a stride-1 convolution.
ConvOut(side, kernel_size, padding) == side + 2 * padding - kernel_size + 1

\* Output side of an unpadded pooling window.
PoolOut(side, pool_size, strides) == ((side - pool_size) \div strides) + 1

RECURSIVE ProdFrom(_, _)
ProdFrom(s, k) == IF k > Len(s) THEN 1 ELSE s[k] * ProdFrom(s, k + 1)

\* (batch size, channel, height, width) -> (batch size, channel*height*width)
Flatten(shape) == << shape[1], ProdFrom(shape, 2) >>

LayerShape(layer, shape) ==
    CASE layer.kind = "conv" ->
           << shape[1], layer.channels,
              ConvOut(shape[3], layer.kernel_size, layer.padding),
              ConvOut(shape[4], layer.kernel_size, layer.padding) >>
      [] layer.kind = "pool" ->
           << shape[1], shape[2],
              PoolOut(shape[3], layer.pool_size, layer.strides),
              PoolOut(shape[4], layer.pool_size, layer.strides) >>
      [] layer.kind = "dense" ->
           << Flatten(shape)[1], layer.units >>

InputShape == << 1, 1, 28, 28 >>

----------------------------------------------------------------------------
(* Inputs. *)

\* A data loader: every batch is full except, possibly, the last one.
IterOf(n, last) == [k \in 1..n |-> IF k = n THEN last ELSE MaxBatchSize]

Iters(maxn) ==
    {<< >>} \cup {IterOf(n, last) : n \in 1..maxn, last \in 1..MaxBatchSize}

\* Loaders long enough for line 296 to record points.
LongIters ==
    {IterOf(k * PlotEvery + d, MaxBatchSize) : k \in 1..MaxPlots, d \in {-1, 0, 1}}

\* A network is a function of its parameters and its input: a network that
\* classifies every example correctly, one that classifies none, and one whose
\* predictions change with the parameters and with the batch.
NetKinds == {"perfect", "wrong", "varying"}

\* d2l.accuracy(net(X), y): the number of correct predictions on batch number
\* idx, of the given size, under the given version of the parameters.
Hits(kind, size, version, idx) ==
    CASE kind = "perfect" -> size
      [] kind = "wrong" -> 0
      [] kind = "varying" -> (version + idx) % (size + 1)

\* l.sum() of batch number idx under the given version of the parameters.
Loss(kind, size, version, idx) ==
    CASE kind = "perfect" -> 0
      [] kind = "wrong" -> MaxLoss * size
      [] kind = "varying" -> (version + idx) % (MaxLoss + 1)

TrainInputs ==
    [num_epochs : 0..MaxEpochs, train_iter : Iters(MaxBatches),
     test_iter : Iters(MaxBatches), ctx : Devices, netKind : NetKinds]
    \cup
    [num_epochs : 1..MaxEpochs, train_iter : LongIters,
     test_iter : Iters(1), ctx : {"gpu0"}, netKind : {"varying"}]

\* The parameters after the notebook's net.initialize() of line 159.
FreshParams == [inits |-> 1, version |-> 0, ctx |-> << "cpu" >>]

ParamCtxs ==
    {<< d >> : d \in Devices} \cup {p \in Devices \X Devices : p[1] # p[2]}

NoBatch == [size |-> 0, Xdev |-> "cpu", ydev |-> "cpu"]

ShapeIdle ==
    /\ shapeX = InputShape
    /\ layer_idx = 0
    /\ printed = << >>

TrainIdle ==
    /\ trainer = [steps |-> 0, batch_size |-> 0, grad |-> Unbound]
    /\ animator = << >>
    /\ timer = [running |-> FALSE, starts |-> 0, times |-> 0]
    /\ epoch = -1
    /\ i = -1
    /\ batch = NoBatch
    /\ fwd = Unbound
    /\ grad = Unbound
    /\ ops = << >>
    /\ metric = Unbound
    /\ train_loss = Unbound
    /\ train_acc = Unbound
    /\ test_acc = Unbound
    /\ out = << >>
    /\ seen = << >>
    /\ examples = 0

EvalIdle ==
    /\ ev_metric = Unbound
    /\ ev_j = -1
    /\ ev_batch = NoBatch
    /\ ev_log = << >>
    /\ ev_ret = Unbound

InitShape ==
    /\ prog = "shape"
    /\ pc = "shape_init"
    /\ err = ""
    /\ ShapeIdle
    /\ num_epochs = 0 /\ train_iter = << >> /\ test_iter = << >>
    /\ ctx = "cpu" /\ netKind = "perfect"
    /\ params = [inits |-> 0, version |-> 0, ctx |-> << >>]
    /\ TrainIdle
    /\ caller = "" /\ data_iter = << >> /\ ev_ctx = None /\ ev_given = None
    /\ EvalIdle

InitEval ==
    /\ prog = "evaluate"
    /\ pc = "ev_ctx"
    /\ err = ""
    /\ ShapeIdle
    /\ num_epochs = 0 /\ train_iter = << >> /\ test_iter = << >>
    /\ ctx = "cpu" /\ netKind \in NetKinds
    /\ \E c \in ParamCtxs : params = [inits |-> 1, version |-> 0, ctx |-> c]
    /\ TrainIdle
    /\ caller = "top"
    /\ data_iter \in Iters(MaxBatches)
    /\ ev_ctx \in {None} \cup Devices
    /\ ev_given = ev_ctx
    /\ EvalIdle

InitTrain ==
    /\ prog = "train"
    /\ pc = "train_init"
    /\ err = ""
    /\ ShapeIdle
    /\ \E in \in TrainInputs :
          /\ num_epochs = in.num_epochs
          /\ train_iter = in.train_iter
          /\ test_iter = in.test_iter
          /\ ctx = in.ctx
          /\ netKind = in.netKind
    /\ params = FreshParams
    /\ TrainIdle
    /\ caller = "" /\ data_iter = << >> /\ ev_ctx = None /\ ev_given = None
    /\ EvalIdle

Init == InitShape \/ InitEval \/ InitTrain

----------------------------------------------------------------------------
(* The shape-inspection cell, lines 158-162. *)

\* net.initialize()
ShapeInit ==
    /\ pc = "shape_init"
    /\ params' = FreshParams
    /\ pc' = "shape_loop"
    /\ UNCHANGED << err, shapeVars, inputVars, trainer, animator, timer, epoch,
                    i, batch, fwd, grad, ops, metric, train_loss, train_acc,
                    test_acc, out, seen, examples, evalVars >>

\* for layer in net: X = layer(X); print(layer.name, 'output shape:', X.shape)
ShapeLayer ==
    /\ pc = "shape_loop"
    /\ IF layer_idx < Len(net)
         THEN /\ shapeX' = LayerShape(net[layer_idx + 1], shapeX)
              /\ printed' = Append(printed, shapeX')
              /\ layer_idx' = layer_idx + 1
              /\ pc' = pc
         ELSE /\ pc' = "done"
              /\ UNCHANGED shapeVars
    /\ UNCHANGED << err, inputVars, trainVars, evalVars >>

----------------------------------------------------------------------------
(* evaluate_accuracy_gpu, lines 241-248. *)

\* The device line 242-243 settles on.
TargetCtx(given, p) == IF given = None THEN p.ctx[1] ELSE given

\* if not ctx: ctx = list(net.collect_params().values())[0].list_ctx()[0]
EvCtx ==
    /\ pc = "ev_ctx"
    /\ ev_ctx' = TargetCtx(ev_ctx, params)
    /\ pc' = "ev_metric"
    /\ UNCHANGED << err, shapeVars, inputVars, trainVars, caller, data_iter,
                    ev_given, ev_metric, ev_j, ev_batch, ev_log, ev_ret >>

\* metric = d2l.Accumulator(2)
EvMetric ==
    /\ pc = "ev_metric"
    /\ ev_metric' = << 0, 0 >>
    /\ pc' = "ev_loop"
    /\ UNCHANGED << err, shapeVars, inputVars, trainVars, caller, data_iter,
                    ev_given, ev_ctx, ev_j, ev_batch, ev_log, ev_ret >>

\* for X, y in data_iter:
EvLoop ==
    /\ pc = "ev_loop"
    /\ IF ev_j + 1 < Len(data_iter)
         THEN /\ ev_j' = ev_j + 1
              /\ ev_batch' = [size |-> data_iter[ev_j + 2], Xdev |-> "cpu",
                              ydev |-> "cpu"]
              /\ pc' = "ev_move"
         ELSE /\ pc' = "ev_return"
              /\ UNCHANGED << ev_j, ev_batch >>
    /\ UNCHANGED << err, shapeVars, inputVars, trainVars, caller, data_iter,
                    ev_given, ev_ctx, ev_metric, ev_log, ev_ret >>

\* X, y = X.as_in_context(ctx), y.as_in_context(ctx)
EvMove ==
    /\ pc = "ev_move"
    /\ ev_batch' = [ev_batch EXCEPT !.Xdev = ev_ctx, !.ydev = ev_ctx]
    /\ pc' = "ev_add"
    /\ UNCHANGED << err, shapeVars, inputVars, trainVars, caller, data_iter,
                    ev_given, ev_ctx, ev_metric, ev_j, ev_log, ev_ret >>

\* metric.add(d2l.accuracy(net(X), y), y.size)
EvAdd ==
    /\ pc = "ev_add"
    /\ LET hits == Hits(netKind, ev_batch.size, params.version, ev_j) IN
          /\ ev_log' = Append(ev_log,
                 [j |-> ev_j, size |-> ev_batch.size, hits |-> hits,
                  Xdev |-> ev_batch.Xdev, ydev |-> ev_batch.ydev,
                  version |-> params.version, steps |-> trainer.steps])
          /\ ev_metric' = << ev_metric[1] + hits, ev_metric[2] + ev_batch.size >>
    /\ pc' = "ev_loop"
    /\ UNCHANGED << err, shapeVars, inputVars, trainVars, caller, data_iter,
                    ev_given, ev_ctx, ev_j, ev_batch, ev_ret >>

\* return metric[0]/metric[1]; in train_ch5, line 299 assigns it to test_acc
EvReturn ==
    /\ pc = "ev_return"
    /\ IF ev_metric[2] = 0
         THEN /\ err' = "ZeroDivisionError"
              /\ pc' = "raised"
              /\ UNCHANGED << ev_ret, test_acc >>
         ELSE /\ ev_ret' = Div(ev_metric[1], ev_metric[2])
              /\ test_acc' = IF caller = "train_ch5" THEN ev_ret' ELSE test_acc
              /\ pc' = IF caller = "train_ch5" THEN "record_test" ELSE "done"
              /\ UNCHANGED err
    /\ UNCHANGED << shapeVars, inputVars, params, trainer, animator, timer,
                    epoch, i, batch, fwd, grad, ops, metric, train_loss,
                    train_acc, out, seen, examples, caller, data_iter, ev_given,
                    ev_ctx,
                    ev_metric, ev_j, ev_batch, ev_log >>

----------------------------------------------------------------------------
(* train_ch5, lines 274-303. *)

\* The x-coordinate of line 297: epoch + i/len(train_iter).
PlotX(e, k, n) == Div(e * n + k, n)

\* Mutant of PlotDue: the 0-based index is tested.
PlotDueZeroBased(k) == k % PlotEvery = 0

\* if (i+1) % 50 == 0
PlotDue(k) == (k + 1) % PlotEvery = 0

\* What the forward passes of epoch e have produced so far.
AddSeen(s, e, t) ==
    IF Len(s) < e + 1
      THEN Append(s, t)
      ELSE [s EXCEPT ![e + 1] = << @[1] + t[1], @[2] + t[2], @[3] + t[3] >>]

\* Lines 275-281: net.initialize(force_reinit=True, ctx=ctx, ...), the loss,
\* the trainer, the animator and the timer.
TrainInit ==
    /\ pc = "train_init"
    /\ params' = [inits |-> params.inits + 1, version |-> 0, ctx |-> << ctx >>]
    /\ trainer' = [steps |-> 0, batch_size |-> 0, grad |-> Unbound]
    /\ animator' = << >>
    /\ timer' = [running |-> FALSE, starts |-> 0, times |-> 0]
    /\ pc' = "epoch_loop"
    /\ UNCHANGED << err, shapeVars, inputVars, epoch, i, batch, fwd, grad, ops,
                    metric, train_loss, train_acc, test_acc, out, seen,
                    examples, evalVars >>

\* for epoch in range(num_epochs):
EpochLoop ==
    /\ pc = "epoch_loop"
    /\ IF epoch + 1 < num_epochs
         THEN /\ epoch' = epoch + 1
              /\ pc' = "metric_reset"
         ELSE /\ pc' = "print_summary"
              /\ UNCHANGED epoch
    /\ UNCHANGED << err, shapeVars, inputVars, params, trainer, animator,
                    timer, i, batch, fwd, grad, ops, metric, train_loss,
                    train_acc, test_acc, out, seen, examples, evalVars >>

\* Mutant of MetricReset: the accumulator is created once, outside the epoch loop.
MetricResetOnce ==
    /\ pc = "metric_reset"
    /\ metric' = IF metric = Unbound THEN << 0, 0, 0 >> ELSE metric
    /\ i' = -1
    /\ pc' = "batch_loop"
    /\ UNCHANGED << err, shapeVars, inputVars, params, trainer, animator,
                    timer, epoch, batch, fwd, grad, ops, train_loss, train_acc,
                    test_acc, out, seen, examples, evalVars >>

\* metric = d2l.Accumulator(3); the enumerate of line 284 starts over
MetricReset ==
    /\ pc = "metric_reset"
    /\ metric' = << 0, 0, 0 >>
    /\ i' = -1
    /\ pc' = "batch_loop"
    /\ UNCHANGED << err, shapeVars, inputVars, params, trainer, animator,
                    timer, epoch, batch, fwd, grad, ops, train_loss, train_acc,
                    test_acc, out, seen, examples, evalVars >>

\* for i, (X, y) in enumerate(train_iter):
BatchLoop ==
    /\ pc = "batch_loop"
    /\ IF i + 1 < Len(train_iter)
         THEN /\ i' = i + 1
              /\ batch' = [size |-> train_iter[i + 2], Xdev |-> "cpu",
                           ydev |-> "cpu"]
              /\ ops' = << >>
              /\ pc' = "timer_start"
         ELSE /\ pc' = "evaluate"
              /\ UNCHANGED << i, batch, ops >>
    /\ UNCHANGED << err, shapeVars, inputVars, params, trainer, animator,
                    timer, epoch, fwd, grad, metric, train_loss, train_acc,
                    test_acc, out, seen, examples, evalVars >>

\* timer.start()
TimerStart ==
    /\ pc = "timer_start"
    /\ timer' = [timer EXCEPT !.running = TRUE, !.starts = @ + 1]
    /\ ops' = Append(ops, "timer.start")
    /\ pc' = "move"
    /\ UNCHANGED << err, shapeVars, inputVars, params, trainer, animator,
                    epoch, i, batch, fwd, grad, metric, train_loss, train_acc,
                    test_acc, out, seen, examples, evalVars >>

\* X, y = X.as_in_context(ctx), y.as_in_context(ctx)
MoveBatch ==
    /\ pc = "move"
    /\ batch' = [batch EXCEPT !.Xdev = ctx, !.ydev = ctx]
    /\ ops' = Append(ops, "as_in_context")
    /\ pc' = "forward"
    /\ UNCHANGED << err, shapeVars, inputVars, params, trainer, animator,
                    timer, epoch, i, fwd, grad, metric, train_loss, train_acc,
                    test_acc, out, seen, examples, evalVars >>

\* with autograd.record(): y_hat = net(X); l = loss(y_hat, y)
Forward ==
    /\ pc = "forward"
    /\ LET hits == Hits(netKind, batch.size, params.version, i)
           loss == Loss(netKind, batch.size, params.version, i) IN
          /\ fwd' = [hits |-> hits, loss |-> loss, size |-> batch.size,
                     Xdev |-> batch.Xdev, ydev |-> batch.ydev,
                     version |-> params.version]
          /\ seen' = AddSeen(seen, epoch, << loss, hits, batch.size >>)
    /\ ops' = Append(ops, "forward")
    /\ pc' = "backward"
    /\ UNCHANGED << err, shapeVars, inputVars, params, trainer, animator,
                    timer, epoch, i, batch, grad, metric, train_loss,
                    train_acc, test_acc, out, examples, evalVars >>

\* l.backward()
Backward ==
    /\ pc = "backward"
    /\ grad' = << epoch, i >>
    /\ ops' = Append(ops, "backward")
    /\ pc' = "step"
    /\ UNCHANGED << err, shapeVars, inputVars, params, trainer, animator,
                    timer, epoch, i, batch, fwd, metric, train_loss, train_acc,
                    test_acc, out, seen, examples, evalVars >>

\* Mutant of Step: the step is scaled by the loader's batch size.
StepGlobalBatch ==
    /\ pc = "step"
    /\ trainer' = [steps |-> trainer.steps + 1, batch_size |-> MaxBatchSize,
                   grad |-> grad]
    /\ params' = [params EXCEPT !.version = @ + 1]
    /\ examples' = examples + batch.size
    /\ ops' = Append(ops, "step")
    /\ pc' = "accumulate"
    /\ UNCHANGED << err, shapeVars, inputVars, animator, timer, epoch, i,
                    batch, fwd, grad, metric, train_loss, train_acc, test_acc,
                    out, seen, evalVars >>

\* trainer.step(X.shape[0])
Step ==
    /\ pc = "step"
    /\ trainer' = [steps |-> trainer.steps + 1, batch_size |-> batch.size,
                   grad |-> grad]
    /\ params' = [params EXCEPT !.version = @ + 1]
    /\ examples' = examples + batch.size
    /\ ops' = Append(ops, "step")
    /\ pc' = "accumulate"
    /\ UNCHANGED << err, shapeVars, inputVars, animator, timer, epoch, i,
                    batch, fwd, grad, metric, train_loss, train_acc, test_acc,
                    out, seen, evalVars >>

\* metric.add(l.sum(), d2l.accuracy(y_hat, y), X.shape[0])
Accumulate ==
    /\ pc = "accumulate"
    /\ metric' = << metric[1] + fwd.loss, metric[2] + fwd.hits,
                    metric[3] + batch.size >>
    /\ ops' = Append(ops, "metric.add")
    /\ pc' = "timer_stop"
    /\ UNCHANGED << err, shapeVars, inputVars, params, trainer, animator,
                    timer, epoch, i, batch, fwd, grad, train_loss, train_acc,
                    test_acc, out, seen, examples, evalVars >>

\* timer.stop()
TimerStop ==
    /\ pc = "timer_stop"
    /\ timer' = [timer EXCEPT !.running = FALSE, !.times = @ + 1]
    /\ ops' = Append(ops, "timer.stop")
    /\ pc' = "rates"
    /\ UNCHANGED << err, shapeVars, inputVars, params, trainer, animator,
                    epoch, i, batch, fwd, grad, metric, train_loss, train_acc,
                    test_acc, out, seen, examples, evalVars >>

\* train_loss, train_acc = metric[0]/metric[2], metric[1]/metric[2]
Rates ==
    /\ pc = "rates"
    /\ IF metric[3] = 0
         THEN /\ err' = "ZeroDivisionError"
              /\ pc' = "raised"
              /\ UNCHANGED << train_loss, train_acc >>
         ELSE /\ train_loss' = Div(metric[1], metric[3])
              /\ train_acc' = Div(metric[2], metric[3])
              /\ pc' = "plot"
              /\ UNCHANGED err
    /\ UNCHANGED << shapeVars, inputVars, params, trainer, animator, timer,
                    epoch, i, batch, fwd, grad, ops, metric, test_acc, out,
                    seen, examples, evalVars >>

\* if (i+1) % 50 == 0: animator.add(epoch + i/len(train_iter), ...)
Plot ==
    /\ pc = "plot"
    /\ animator' =
         IF PlotDue(i)
           THEN Append(animator,
                       [x |-> PlotX(epoch, i, Len(train_iter)), kind |-> "train",
                        epoch |-> epoch, i |-> i])
           ELSE animator
    /\ pc' = "batch_loop"
    /\ UNCHANGED << err, shapeVars, inputVars, params, trainer, timer, epoch,
                    i, batch, fwd, grad, ops, metric, train_loss, train_acc,
                    test_acc, out, seen, examples, evalVars >>

\* test_acc = evaluate_accuracy_gpu(net, test_iter): the call
EvalCall ==
    /\ pc = "evaluate"
    /\ caller' = "train_ch5"
    /\ data_iter' = test_iter
    /\ ev_ctx' = None
    /\ ev_given' = None
    /\ ev_metric' = Unbound
    /\ ev_j' = -1
    /\ ev_batch' = NoBatch
    /\ ev_log' = << >>
    /\ pc' = "ev_ctx"
    /\ UNCHANGED << err, shapeVars, inputVars, trainVars, ev_ret >>

\* Mutant of RecordTest: the test point is recorded at the 0-based epoch.
RecordTestAtEpoch ==
    /\ pc = "record_test"
    /\ animator' = Append(animator,
                          [x |-> Div(epoch, 1), kind |-> "test",
                           epoch |-> epoch, i |-> i])
    /\ pc' = "epoch_loop"
    /\ UNCHANGED << err, shapeVars, inputVars, params, trainer, timer, epoch,
                    i, batch, fwd, grad, ops, metric, train_loss, train_acc,
                    test_acc, out, seen, examples, evalVars >>

\* animator.add(epoch+1, (None, None, test_acc))
RecordTest ==
    /\ pc = "record_test"
    /\ animator' = Append(animator,
                          [x |-> Div(epoch + 1, 1), kind |-> "test",
                           epoch |-> epoch, i |-> i])
    /\ pc' = "epoch_loop"
    /\ UNCHANGED << err, shapeVars, inputVars, params, trainer, timer, epoch,
                    i, batch, fwd, grad, ops, metric, train_loss, train_acc,
                    test_acc, out, seen, examples, evalVars >>

\* print('loss %.3f, train acc %.3f, test acc %.3f' % (train_loss, train_acc,
\* test_acc)); the values are recorded as they are handed to the format
PrintSummary ==
    /\ pc = "print_summary"
    /\ IF train_loss = Unbound \/ train_acc = Unbound \/ test_acc = Unbound
         THEN /\ err' = "UnboundLocalError"
              /\ pc' = "raised"
              /\ UNCHANGED out
         ELSE /\ out' = Append(out, [line |-> "summary", loss |-> train_loss,
                                     train_acc |-> train_acc,
                                     test_acc |-> test_acc])
              /\ pc' = "print_throughput"
              /\ UNCHANGED err
    /\ UNCHANGED << shapeVars, inputVars, params, trainer, animator, timer,
                    epoch, i, batch, fwd, grad, ops, metric, train_loss,
                    train_acc, test_acc, seen, examples, evalVars >>

\* Mutant of PrintThroughput: the example count is not multiplied by the epochs.
PrintThroughputLastEpoch ==
    /\ pc = "print_throughput"
    /\ IF metric = Unbound
         THEN /\ err' = "UnboundLocalError"
              /\ pc' = "raised"
              /\ UNCHANGED out
         ELSE IF timer.times = 0
         THEN /\ err' = "ZeroDivisionError"
              /\ pc' = "raised"
              /\ UNCHANGED out
         ELSE /\ out' = Append(out, [line |-> "throughput",
                                     examples |-> metric[3],
                                     intervals |-> timer.times, ctx |-> ctx])
              /\ pc' = "done"
              /\ UNCHANGED err
    /\ UNCHANGED << shapeVars, inputVars, params, trainer, animator, timer,
                    epoch, i, batch, fwd, grad, ops, metric, train_loss,
                    train_acc, test_acc, seen, examples, evalVars >>

\* print('%.1f exampes/sec on %s' % (metric[2]*num_epochs/timer.sum(), ctx));
\* timer.sum() is positive once an interval has been recorded
PrintThroughput ==
    /\ pc = "print_throughput"
    /\ IF metric = Unbound
         THEN /\ err' = "UnboundLocalError"
              /\ pc' = "raised"
              /\ UNCHANGED out
         ELSE IF timer.times = 0
         THEN /\ err' = "ZeroDivisionError"
              /\ pc' = "raised"
              /\ UNCHANGED out
         ELSE /\ out' = Append(out, [line |-> "throughput",
                                     examples |-> metric[3] * num_epochs,
                                     intervals |-> timer.times, ctx |-> ctx])
              /\ pc' = "done"
              /\ UNCHANGED err
    /\ UNCHANGED << shapeVars, inputVars, params, trainer, animator, timer,
                    epoch, i, batch, fwd, grad, ops, metric, train_loss,
                    train_acc, test_acc, seen, examples, evalVars >>

----------------------------------------------------------------------------

Next ==
    \/ ShapeInit
    \/ ShapeLayer
    \/ EvCtx
    \/ EvMetric
    \/ EvLoop
    \/ EvMove
    \/ EvAdd
    \/ EvReturn
    \/ TrainInit
    \/ EpochLoop
    \/ MetricReset
    \/ BatchLoop
    \/ TimerStart
    \/ MoveBatch
    \/ Forward
    \/ Backward
    \/ Step
    \/ Accumulate
    \/ TimerStop
    \/ Rates
    \/ Plot
    \/ EvalCall
    \/ RecordTest
    \/ PrintSummary
    \/ PrintThroughput

Spec == Init /\ [][Next]_vars

----------------------------------------------------------------------------
(* Claims about the network's shapes. *)

\* Height and width of the k-th printed shape (of the input for k = 0).
SideH(k) == IF k = 0 THEN InputShape[3] ELSE printed[k][3]

SideW(k) == IF k = 0 THEN InputShape[4] ELSE printed[k][4]

\* C6: the height and width of the representation are reduced at each layer
\* of the convolutional block compared to the previous layer; the first
\* convolution (kernel 5, padding 2) reduces both by 2 pixels and the second
\* (kernel 5, no padding) reduces both by 4 pixels.
C6_ConvBlockReduces ==
    /\ \A k \in 1..layer_idx :
          k <= 4 => /\ SideH(k) < SideH(k - 1)
                    /\ SideW(k) < SideW(k - 1)
    /\ layer_idx >= 1 => /\ SideH(1) = SideH(0) - 2
                         /\ SideW(1) = SideW(0) - 2
    /\ layer_idx >= 3 => /\ SideH(3) = SideH(2) - 4
                         /\ SideW(3) = SideW(2) - 4

\* C7: the (1, 1, 28, 28) input passes the seven layers in order; one shape
\* is printed per layer, in layer order: channels 1 -> 6 -> 16, each pooling
\* layer halves height and width exactly (one quarter of the area), the first
\* dense layer receives the flattened channel*height*width vector, the dense
\* widths are 120, 84, 10, and the final output is (1, 10).
C7_ShapesThroughLayers ==
    prog = "shape" =>
      /\ Len(printed) = layer_idx
      /\ layer_idx <= 7
      /\ printed = SubSeq(<< << 1, 6, 28, 28 >>, << 1, 6, 14, 14 >>,
                             << 1, 16, 10, 10 >>, << 1, 16, 5, 5 >>,
                             << 1, 120 >>, << 1, 84 >>, << 1, 10 >> >>,
                          1, layer_idx)
      /\ \A k \in 1..layer_idx :
            k \in {2, 4} => /\ 2 * SideH(k) = SideH(k - 1)
                            /\ 2 * SideW(k) = SideW(k - 1)
                            /\ 4 * SideH(k) * SideW(k) = SideH(k - 1) * SideW(k - 1)
      /\ layer_idx >= 4 => Flatten(printed[4]) = << 1, 16 * 5 * 5 >>
      /\ layer_idx > 0 => shapeX = printed[layer_idx]
      /\ pc = "done" => /\ layer_idx = 7
                        /\ shapeX = << 1, 10 >>

\* The shape-inspection loop has run through all seven layers.
C7_Witness == prog = "shape" /\ pc = "done" /\ Len(printed) = 7

----------------------------------------------------------------------------
(* Claims about evaluate_accuracy_gpu. *)

\* Total number of correct predictions over the whole iterator.
RECURSIVE HitsUpTo(_)
HitsUpTo(k) ==
    IF k = 0 THEN 0
    ELSE Hits(netKind, data_iter[k], params.version, k - 1) + HitsUpTo(k - 1)

\* C1: evaluate_accuracy_gpu visits each batch of the iterator exactly once,
\* moves X and y to the target device (the given ctx or, without one, the
\* first device of the first parameter) before invoking the network, and,
\* for every finite iterator, returns the number of correctly classified
\* examples divided by the number of labels.
C1_EvaluateReturnsFraction ==
    prog = "evaluate" =>
      /\ \A k \in 1..Len(ev_log) :
            /\ ev_log[k].j = k - 1
            /\ ev_log[k].size = data_iter[k]
            /\ ev_log[k].Xdev = TargetCtx(ev_given, params)
            /\ ev_log[k].ydev = TargetCtx(ev_given, params)
      /\ pc \in {"done", "raised"} =>
            /\ Len(ev_log) = Len(data_iter)
            /\ err = ""
            /\ ev_ret # Unbound
            /\ RatEq(ev_ret, << HitsUpTo(Len(data_iter)), Sum(data_iter) >>)

----------------------------------------------------------------------------
(* Claims about train_ch5. *)

NumBatches == Len(train_iter)

\* The statements of one pass of the batch loop, lines 285-298.
BatchPcs == {"timer_start", "move", "forward", "backward", "step",
             "accumulate", "timer_stop", "rates", "plot"}

EvalPcs == {"ev_ctx", "ev_metric", "ev_loop", "ev_move", "ev_add", "ev_return"}

Ended == pc \in {"done", "raised"}

\* C2: train_ch5 terminates after exactly num_epochs epochs, none skipped,
\* repeated or cut short: when it ends, the optimizer has taken num_epochs
\* times len(train_iter) steps.
C2_RunsAllEpochs ==
    (prog = "train" /\ Ended) =>
      /\ epoch = num_epochs - 1
      /\ trainer.steps = num_epochs * NumBatches

\* The order of the operations on one batch.
BatchOps == << "timer.start", "as_in_context", "forward", "backward", "step",
               "metric.add", "timer.stop" >>

\* Operations performed on the current batch when pc is reached.
OpsAt(p) ==
    CASE p = "timer_start" -> 0
      [] p = "move" -> 1
      [] p = "forward" -> 2
      [] p = "backward" -> 3
      [] p = "step" -> 4
      [] p = "accumulate" -> 5
      [] p = "timer_stop" -> 6
      [] p \in {"rates", "plot"} -> 7

\* Optimizer steps due when pc is reached: one per batch, every epoch.  A run
\* can only raise after the batch loop of the current epoch (lines 248, 301).
StepsDue ==
    CASE pc = "train_init" -> 0
      [] pc = "metric_reset" -> epoch * NumBatches
      [] pc = "batch_loop" -> epoch * NumBatches + i + 1
      [] pc \in BatchPcs -> epoch * NumBatches + i + (IF OpsAt(pc) >= 5 THEN 1 ELSE 0)
      [] OTHER -> (epoch + 1) * NumBatches

\* C3: the parameters are re-initialized exactly once, before the first
\* batch; on every batch the operations are, in this order and with nothing
\* in between: move to the target device, forward pass and loss, backward
\* pass, one optimizer step scaled by that batch's size, accumulation.  Every
\* step follows the backward pass of the same batch; no batch gets two steps.
C3_BatchStepOrder ==
    prog = "train" =>
      /\ pc = "train_init" => params = FreshParams /\ ops = << >>
      /\ pc # "train_init" => /\ params.inits = FreshParams.inits + 1
                              /\ params.ctx = << ctx >>
      /\ ops = SubSeq(BatchOps, 1, Len(ops))
      /\ pc \in BatchPcs => Len(ops) = OpsAt(pc)
      /\ pc \in BatchPcs /\ Len(ops) >= 2 =>
            batch = [size |-> train_iter[i + 1], Xdev |-> ctx, ydev |-> ctx]
      /\ pc \in BatchPcs /\ Len(ops) >= 3 =>
            /\ fwd.Xdev = ctx /\ fwd.ydev = ctx
            /\ fwd.size = train_iter[i + 1]
            /\ fwd.version = epoch * NumBatches + i
      /\ pc \in BatchPcs /\ Len(ops) >= 4 => grad = << epoch, i >>
      /\ pc \in BatchPcs /\ Len(ops) >= 5 =>
            /\ trainer.grad = << epoch, i >>
            /\ trainer.batch_size = train_iter[i + 1]
      /\ trainer.steps = StepsDue
      /\ params.version = trainer.steps

\* Two epochs over a loader whose last batch is smaller have been trained.
C3_Witness ==
    /\ prog = "train" /\ pc = "done"
    /\ num_epochs = 2 /\ NumBatches = 2
    /\ train_iter[2] < train_iter[1]
    /\ trainer.steps = 4
    /\ trainer.batch_size = train_iter[2]

\* Batches of the current epoch whose metric.add has run.
Accumulated ==
    IF pc \in BatchPcs /\ OpsAt(pc) < 6 THEN i ELSE i + 1

\* What the forward passes of the current epoch produced and line 293 has
\* added so far.
SeenAccumulated ==
    LET all == IF Len(seen) >= epoch + 1 THEN seen[epoch + 1] ELSE << 0, 0, 0 >>
        pending == IF pc \in {"backward", "step", "accumulate"}
                     THEN << fwd.loss, fwd.hits, fwd.size >>
                     ELSE << 0, 0, 0 >>
    IN  << all[1] - pending[1], all[2] - pending[2], all[3] - pending[3] >>

\* C4: the accumulators are reset at each epoch boundary and updated once
\* per batch: after k batches of the current epoch, the example count is the
\* sum of the sizes of exactly those k batches, the loss sum and the correct
\* count the sums over exactly those k batches; correct count <= example
\* count, and the running training accuracy lies in [0, 1].  (At line 283
\* itself, the boundary, the accumulator is still the previous epoch's.)
C4_AccumulatorsPerEpoch ==
    (prog = "train" /\ epoch >= 0 /\ pc # "metric_reset") =>
      /\ metric # Unbound
      /\ metric[3] = SumTo(train_iter, Accumulated)
      /\ metric = SeenAccumulated
      /\ metric[2] <= metric[3]
      /\ train_acc # Unbound =>
            /\ train_acc[2] > 0
            /\ 0 <= train_acc[1]
            /\ train_acc[1] <= train_acc[2]
      /\ pc \in {"plot", "batch_loop"} /\ i >= 0 =>
            /\ train_loss = << metric[1], metric[3] >>
            /\ train_acc = << metric[2], metric[3] >>

\* In the second epoch, after its second batch, some but not all examples of
\* the epoch were classified correctly.
C4_Witness ==
    /\ prog = "train" /\ pc = "rates"
    /\ epoch = 1 /\ i = 1
    /\ metric[1] > 0
    /\ 0 < metric[2] /\ metric[2] < metric[3]

\* The recorded test points, in order.
TestPoints == SelectSeq(animator, LAMBDA p : p.kind = "test")

\* Evaluations whose result line 300 has recorded when pc is reached; a run
\* that raised ZeroDivisionError stopped at line 248, inside the evaluation
\* of the current epoch.
TestPointsDue ==
    IF pc \in {"train_init", "metric_reset", "batch_loop", "evaluate"}
          \cup BatchPcs \cup EvalPcs \cup {"record_test"}
          \/ err = "ZeroDivisionError"
      THEN IF epoch < 0 THEN 0 ELSE epoch
      ELSE epoch + 1

\* C5: test accuracy is computed and recorded once per epoch, at its end:
\* the evaluation of epoch e runs after the step of the last training batch
\* of epoch e and before the first batch of epoch e+1, is recorded at
\* x = e + 1, and performs no backward pass and no optimizer step, so it
\* measures the parameters left by the last step of epoch e.
C5_TestAccAtEpochEnd ==
    prog = "train" =>
      /\ Len(TestPoints) = TestPointsDue
      /\ \A k \in 1..Len(TestPoints) :
            /\ TestPoints[k].x = << k, 1 >>
            /\ TestPoints[k].epoch = k - 1
      /\ \A a \in 1..Len(animator), b \in 1..Len(animator) :
            (a < b /\ animator[a].kind # animator[b].kind) =>
               IF animator[a].kind = "test"
                 THEN animator[a].epoch < animator[b].epoch
                 ELSE animator[a].epoch <= animator[b].epoch
      /\ pc \in EvalPcs \cup {"record_test"} =>
            /\ i + 1 = NumBatches
            /\ trainer.steps = (epoch + 1) * NumBatches
            /\ params.version = trainer.steps
            /\ ~timer.running
            /\ NumBatches > 0 => /\ grad = << epoch, NumBatches - 1 >>
                                 /\ ops = BatchOps
            /\ \A k \in 1..Len(ev_log) :
                  /\ ev_log[k].steps = (epoch + 1) * NumBatches
                  /\ ev_log[k].version = (epoch + 1) * NumBatches
      /\ pc = "record_test" =>
            /\ Len(ev_log) = Len(test_iter)
            /\ test_acc = ev_ret
            /\ test_acc = << HitsUpTo(Len(test_iter)), Sum(test_iter) >>

\* The second epoch's evaluation, over two test batches, is about to be
\* recorded after that epoch's training batches.
C5_Witness ==
    /\ prog = "train" /\ pc = "record_test"
    /\ epoch = 1 /\ NumBatches = 2
    /\ Len(test_iter) = 2 /\ Len(ev_log) = 2
    /\ Len(TestPoints) = 1

\* The recorded training points, in order.
TrainPoints == SelectSeq(animator, LAMBDA p : p.kind = "train")

\* Batches that have passed line 296 when pc is reached: whole epochs, and
\* batches of the current epoch.
PlottedEpochs == IF epoch < 0 THEN 0 ELSE epoch

PlottedBatches ==
    CASE pc \in {"train_init", "metric_reset"} -> 0
      [] pc \in BatchPcs -> i
      [] OTHER -> i + 1

\* C8: a training point is recorded exactly at the batches whose 1-based
\* index within the epoch is a multiple of 50; the point of batch i of epoch
\* e is at x = e + i/len(train_iter), in [e, e+1); over the run the recorded
\* x-coordinates, training and test points together, strictly increase in
\* the order recorded and never exceed num_epochs.
C8_PlotPoints ==
    prog = "train" =>
      /\ \A k \in 1..Len(animator) :
            animator[k].kind = "train" =>
               /\ (animator[k].i + 1) % PlotEvery = 0
               /\ animator[k].x = << animator[k].epoch * NumBatches + animator[k].i,
                                     NumBatches >>
               /\ RatLeq(<< animator[k].epoch, 1 >>, animator[k].x)
               /\ RatLess(animator[k].x, << animator[k].epoch + 1, 1 >>)
      /\ Len(TrainPoints) = PlottedEpochs * (NumBatches \div PlotEvery)
                              + (PlottedBatches \div PlotEvery)
      /\ \A k \in 1..Len(animator) :
            /\ animator[k].x[2] > 0
            /\ RatLeq(animator[k].x, << num_epochs, 1 >>)
            /\ k > 1 => RatLess(animator[k - 1].x, animator[k].x)

\* Two epochs, each with two training points and a test point, were plotted.
C8_Witness ==
    /\ prog = "train" /\ pc = "done"
    /\ num_epochs = 2
    /\ Len(TrainPoints) = 4 /\ Len(TestPoints) = 2
    /\ animator[1].i = PlotEvery - 1
    /\ animator[2].i = 2 * PlotEvery - 1

\* C9: for every num_epochs >= 0 and every finite train and test iterator,
\* an empty one included, train_ch5 ends normally with the summary line; the
\* loss and train accuracy it reports are the last epoch's loss sum and
\* correct count divided by that epoch's example count, the test accuracy is
\* the last epoch's evaluation.
C9_EndsWithSummary ==
    (prog = "train" /\ Ended) =>
      /\ pc = "done"
      /\ err = ""
      /\ Len(out) = 2
      /\ out[1].line = "summary"
      /\ out[1].loss = << metric[1], Sum(train_iter) >>
      /\ out[1].train_acc = << metric[2], Sum(train_iter) >>
      /\ out[1].test_acc = ev_ret

\* C10: the throughput numerator, the last epoch's example count times
\* num_epochs, is the number of examples processed over all batches of all
\* epochs; the timer has recorded one start/stop interval per processed
\* batch, start and stop alternating, start first, and runs from before the
\* transfer to after the accumulation, never during the evaluation.
C10_ThroughputCounts ==
    prog = "train" =>
      /\ timer.starts = timer.times + (IF timer.running THEN 1 ELSE 0)
      /\ timer.running <=> (pc \in BatchPcs /\ OpsAt(pc) \in 1..6)
      /\ ~timer.running => timer.times = trainer.steps
      /\ timer.running => timer.times = epoch * NumBatches + i
      /\ \A k \in 1..Len(out) :
            out[k].line = "throughput" =>
               /\ out[k].examples = examples
               /\ out[k].examples = num_epochs * Sum(train_iter)
               /\ out[k].intervals = num_epochs * NumBatches

\* The throughput of two epochs over two batches of different sizes was
\* printed.
C10_Witness ==
    /\ prog = "train" /\ pc = "done"
    /\ num_epochs = 2 /\ NumBatches = 2
    /\ train_iter[1] # train_iter[2]
    /\ Len(out) = 2
    /\ out[2].line = "throughput"
    /\ out[2].intervals = 4

====
